---------------------------- MODULE Spec2Model ----------------------------
(***************************************************************************)
(* Immutable quadtree (Zubry/immutable-quadtree).                          *)
(*                                                                         *)
(* Values are the Immutable.js maps and lists of the source: a boundary is *)
(* a record x, y, width, height; a node is a record boundary, maxChildren, *)
(* maxDepth, depth, quadrants, children, overlappingChildren; a list is a  *)
(* sequence.  The state is the tree value the caller holds, the value the  *)
(* last operation returned, and the history of the calls made so far.      *)
(*                                                                         *)
(* Numbers are JavaScript doubles in the source.  Every coordinate the     *)
(* model uses is an integer, and every width or height that is halved is   *)
(* a multiple of two (root sizes are multiples of 2^MaxDepthBound), so     *)
(* "/ 2" is exact and the integer quotient is the double the source gets.  *)
(***************************************************************************)
EXTENDS Integers, Sequences, FiniteSets, Bags, TLC

VARIABLES
  tree,      \* the tree value the caller holds now
  before,    \* the tree value that was passed to the last operation
  ret,       \* the list the last search returned
  op,        \* the last operation and its argument
  inserted,  \* the items inserted since create or the last clear, in order
  cfg        \* the arguments of create

vars == <<tree, before, ret, op, inserted, cfg>>

-----------------------------------------------------------------------------
(* Bounds of the model *)

MaxChildrenBound == 2
MaxDepthBound == 2
MaxInserts == 3
MaxBatch == 2

-----------------------------------------------------------------------------
(* structs *)

\* the absent quadrant (null)
Null == [null |-> TRUE]

Directions == {"top-left", "top-right", "bottom-left", "bottom-right"}

\* JavaScript argument values: undefined, a string, or a number num/den
\* (an integer when den divides num)
Undefined == [type |-> "undefined"]
String(v) == [type |-> "string", value |-> v]
Number(v) == [type |-> "number", num |-> v, den |-> 1]
Halves(v) == [type |-> "number", num |-> v, den |-> 2]

\* a default parameter value applies when the argument is undefined
Default(arg, v) == IF arg.type = "undefined" THEN Number(v) ELSE arg

\* check-types: assert.integer, assert.greater, assert.greaterOrEqual
IsInteger(arg) == arg.type = "number" /\ arg.num % arg.den = 0
Greater(arg, v) == arg.type = "number" /\ arg.num > v * arg.den
GreaterOrEqual(arg, v) == arg.type = "number" /\ arg.num >= v * arg.den

\* a failed assertion: the call throws and returns no value
Throw(message) == [error |-> message]
IsError(v) == "error" \in DOMAIN v

BoundaryKeys == {"x", "y", "width", "height"}
NodeKeys == {"boundary", "quadrants", "depth", "maxDepth", "maxChildren"}

\* check.all(keys.map((key) => m.has(key)))
HasKeys(m, keys) == keys \subseteq DOMAIN m

DefaultMaxChildren == 4
DefaultMaxDepth == 4
DefaultDepth == 0

position(x, y) == [x |-> x, y |-> y]

boundary(x, y, width, height) ==
  [width |-> width, height |-> height,
   x |-> position(x, y).x, y |-> position(x, y).y]

\* node that accepts 0 for maxChildren and maxDepth (greaterOrEqual)
node_acceptsZero(b, maxChildrenArg, maxDepthArg, depthArg) ==
  LET maxChildren == Default(maxChildrenArg, DefaultMaxChildren)
      maxDepth == Default(maxDepthArg, DefaultMaxDepth)
      depth == Default(depthArg, DefaultDepth)
  IN IF ~HasKeys(b, BoundaryKeys) THEN Throw("Missing boundary")
     ELSE IF ~IsInteger(maxChildren) \/ ~GreaterOrEqual(maxChildren, 0)
       THEN Throw("maxChildren")
     ELSE IF ~IsInteger(maxDepth) \/ ~GreaterOrEqual(maxDepth, 0)
       THEN Throw("maxDepth")
     ELSE IF ~IsInteger(depth) \/ ~GreaterOrEqual(depth, 0)
       THEN Throw("depth")
     ELSE [boundary |-> b,
           maxChildren |-> maxChildren.num \div maxChildren.den,
           maxDepth |-> maxDepth.num \div maxDepth.den,
           depth |-> depth.num \div depth.den,
           quadrants |-> [d \in Directions |-> Null],
           children |-> <<>>,
           overlappingChildren |-> <<>>]

\* the arguments are JavaScript values; a node stores the integers
node(b, maxChildrenArg, maxDepthArg, depthArg) ==
  LET maxChildren == Default(maxChildrenArg, DefaultMaxChildren)
      maxDepth == Default(maxDepthArg, DefaultMaxDepth)
      depth == Default(depthArg, DefaultDepth)
  IN IF ~HasKeys(b, BoundaryKeys) THEN Throw("Missing boundary")
     ELSE IF ~IsInteger(maxChildren) \/ ~Greater(maxChildren, 0)
       THEN Throw("maxChildren")
     ELSE IF ~IsInteger(maxDepth) \/ ~Greater(maxDepth, 0)
       THEN Throw("maxDepth")
     ELSE IF ~IsInteger(depth) \/ ~GreaterOrEqual(depth, 0)
       THEN Throw("depth")
     ELSE [boundary |-> b,
           maxChildren |-> maxChildren.num \div maxChildren.den,
           maxDepth |-> maxDepth.num \div maxDepth.den,
           depth |-> depth.num \div depth.den,
           quadrants |-> [d \in Directions |-> Null],
           children |-> <<>>,
           overlappingChildren |-> <<>>]

\* v / 2 on a number that is even wherever the model halves it
Half(v) == v \div 2

-----------------------------------------------------------------------------
(* modules/boundary.js *)
(* within and intersects assert that both arguments have x, y, width and   *)
(* height; every caller below has asserted that before it calls them, and  *)
(* the model applies them to rectangles only.                              *)

\* within with strict comparisons on the far edges
within_strictFarEdge(bound, item) ==
  /\ item.x >= bound.x
  /\ item.x + item.width < bound.x + bound.width
  /\ item.y >= bound.y
  /\ item.y + item.height < bound.y + bound.height

within(bound, item) ==
  /\ item.x >= bound.x
  /\ item.x + item.width <= bound.x + bound.width
  /\ item.y >= bound.y
  /\ item.y + item.height <= bound.y + bound.height

\* intersects with an inclusive first comparison
intersects_leftInclusive(bound1, bound2) ==
  /\ bound1.x <= bound2.x + bound2.width
  /\ bound1.x + bound1.width > bound2.x
  /\ bound1.y < bound2.y + bound2.height
  /\ bound1.y + bound1.height > bound2.y

\* intersects with inclusive comparisons
intersects_inclusive(bound1, bound2) ==
  /\ bound1.x <= bound2.x + bound2.width
  /\ bound1.x + bound1.width >= bound2.x
  /\ bound1.y <= bound2.y + bound2.height
  /\ bound1.y + bound1.height >= bound2.y

intersects(bound1, bound2) ==
  /\ bound1.x < bound2.x + bound2.width
  /\ bound1.x + bound1.width > bound2.x
  /\ bound1.y < bound2.y + bound2.height
  /\ bound1.y + bound1.height > bound2.y

-----------------------------------------------------------------------------
(* modules/node.js *)

\* addChild without the assertion on the item
addChild_noItemCheck(n, item) ==
  IF ~HasKeys(n, {"children"}) THEN Throw("Missing children property")
  ELSE [n EXCEPT !.children = Append(@, item)]

\* addChild that puts the item in front (unshift)
addChild_unshift(n, item) ==
  IF ~HasKeys(item, BoundaryKeys) THEN Throw("Missing boundary")
  ELSE IF "children" \notin DOMAIN n THEN Throw("Missing children property")
  ELSE [n EXCEPT !.children = <<item>> \o @]

addChild(n, item) ==
  IF ~HasKeys(item, BoundaryKeys) THEN Throw("Missing boundary")
  ELSE IF ~HasKeys(n, {"children"}) THEN Throw("Missing children property")
  ELSE [n EXCEPT !.children = Append(@, item)]

\* addOverlappingChild that rebuilds the node and drops its quadrants
addOverlappingChild_rebuild(n, item) ==
  [node(n.boundary, Number(n.maxChildren), Number(n.maxDepth), Number(n.depth))
     EXCEPT !.overlappingChildren = Append(n.overlappingChildren, item)]

addOverlappingChild(n, item) ==
  IF ~HasKeys(item, BoundaryKeys) THEN Throw("Missing boundary")
  ELSE IF ~HasKeys(n, {"overlappingChildren"})
    THEN Throw("Missing overlappingChildren property")
  ELSE [n EXCEPT !.overlappingChildren = Append(@, item)]

\* split that passes maxDepth and maxChildren to node() in the wrong order
split_swappedThresholds(n) ==
  LET x == n.boundary.x
      y == n.boundary.y
      width == n.boundary.width
      height == n.boundary.height
      halfwidth == Half(width)
      halfheight == Half(height)
      hmid == x + halfwidth
      vmid == y + halfheight
      depth == Number(n.depth + 1)
      maxChildren == Number(n.maxChildren)
      maxDepth == Number(n.maxDepth)
  IN [n EXCEPT !.quadrants =
        [[[[@ EXCEPT !["top-left"] =
                node(boundary(x, y, halfheight, halfwidth),
                     maxDepth, maxChildren, depth)]
              EXCEPT !["top-right"] =
                node(boundary(hmid, y, halfheight, halfwidth),
                     maxDepth, maxChildren, depth)]
              EXCEPT !["bottom-left"] =
                node(boundary(x, vmid, halfheight, halfwidth),
                     maxDepth, maxChildren, depth)]
              EXCEPT !["bottom-right"] =
                node(boundary(hmid, vmid, halfheight, halfwidth),
                     maxDepth, maxChildren, depth)]]

\* boundary(x, y, width, height) is called with (.., halfheight, halfwidth)
split(n) ==
  LET x == n.boundary.x
      y == n.boundary.y
      width == n.boundary.width
      height == n.boundary.height
      halfwidth == Half(width)
      halfheight == Half(height)
      hmid == x + halfwidth
      vmid == y + halfheight
      depth == Number(n.depth + 1)
      maxChildren == Number(n.maxChildren)
      maxDepth == Number(n.maxDepth)
  IN [n EXCEPT !.quadrants =
        [[[[@ EXCEPT !["top-left"] =
                node(boundary(x, y, halfheight, halfwidth),
                     maxChildren, maxDepth, depth)]
              EXCEPT !["top-right"] =
                node(boundary(hmid, y, halfheight, halfwidth),
                     maxChildren, maxDepth, depth)]
              EXCEPT !["bottom-left"] =
                node(boundary(x, vmid, halfheight, halfwidth),
                     maxChildren, maxDepth, depth)]
              EXCEPT !["bottom-right"] =
                node(boundary(hmid, vmid, halfheight, halfwidth),
                     maxChildren, maxDepth, depth)]]

isLeaf(n) == n.quadrants["top-left"] = Null

\* Node.clear
RECURSIVE Node_clear(_)
Node_clear(n) ==
  LET cleared(q) == [d \in DOMAIN q |-> Node_clear(q[d])]
      nulled(q) == [d \in DOMAIN q |-> Null]
      removedNodes == IF ~isLeaf(n)
                      THEN [n EXCEPT !.quadrants = nulled(cleared(@))]
                      ELSE n
  IN [removedNodes EXCEPT !.children = <<>>,
                          !.overlappingChildren = <<>>]

\* isSplittable with >= in place of >
isSplittable_atCapacity(n) ==
  LET len == Len(n.children)
  IN len >= n.maxChildren /\ n.depth < n.maxDepth

\* isSplittable that stops one level early
isSplittable_depthOffByOne(n) ==
  LET len == Len(n.children)
  IN len > n.maxChildren /\ n.depth + 1 < n.maxDepth

\* isSplittable that still splits at the maximum depth
isSplittable_depthInclusive(n) ==
  LET len == Len(n.children)
  IN len > n.maxChildren /\ n.depth <= n.maxDepth

\* isSplittable that allows splits down to twice the maximum depth
isSplittable_depthDoubled(n) ==
  LET len == Len(n.children)
  IN len > n.maxChildren /\ n.depth < 2 * n.maxDepth

isSplittable(n) ==
  LET len == Len(n.children)
  IN len > n.maxChildren /\ n.depth < n.maxDepth

-----------------------------------------------------------------------------
(* modules/quadtree.js *)

create(b, maxChildrenArg, maxDepthArg) ==
  node(b, Default(maxChildrenArg, DefaultMaxChildren),
       Default(maxDepthArg, DefaultMaxDepth), Number(0))

\* determineQuadrant that sends an item on a midline to the right / bottom
determineQuadrant_midlineRight(n, item) ==
  LET b == n.boundary
      right == item.x >= b.x + Half(b.width)
      left == ~right
      bottom == item.y >= b.y + Half(b.height)
      top == ~bottom
  IN IF top /\ left THEN "top-left"
     ELSE IF top /\ right THEN "top-right"
     ELSE IF bottom /\ left THEN "bottom-left"
     ELSE IF bottom /\ right THEN "bottom-right"
     ELSE ""

determineQuadrant(n, item) ==
  LET b == n.boundary
      right == item.x > b.x + Half(b.width)
      left == ~right
      bottom == item.y > b.y + Half(b.height)
      top == ~bottom
  IN IF top /\ left THEN "top-left"
     ELSE IF top /\ right THEN "top-right"
     ELSE IF bottom /\ left THEN "bottom-left"
     ELSE IF bottom /\ right THEN "bottom-right"
     ELSE ""

RECURSIVE insert(_, _)
RECURSIVE reduce(_, _)
RECURSIVE search(_, _)
RECURSIVE clear(_)

\* items.reduce((acc, i) => insert(acc, i), n)
reduce(items, acc) ==
  IF items = <<>> THEN acc
  ELSE reduce(Tail(items), insert(acc, Head(items)))

\* insert without the final clearing of the split node's direct items
insert_keepChildren(n, item) ==
  IF ~HasKeys(item, BoundaryKeys) THEN Throw("Missing boundary")
  ELSE IF ~HasKeys(n, NodeKeys) THEN Throw("Missing node properties")
  ELSE IF ~isLeaf(n)
  THEN LET direction == determineQuadrant(n, item)
           quadrant == n.quadrants[direction]
       IN IF within(quadrant.boundary, item)
          THEN [n EXCEPT !.quadrants[direction] = insert(@, item)]
          ELSE addOverlappingChild(n, item)
  ELSE LET updatedNode == addChild(n, item)
       IN IF ~isSplittable(updatedNode)
          THEN updatedNode
          ELSE LET splitNode == split(updatedNode)
                   children == splitNode.children
               IN reduce(children, splitNode)

\* insert that descends when the item intersects the chosen quadrant
insert_intersectsQuadrant(n, item) ==
  IF ~HasKeys(item, BoundaryKeys) THEN Throw("Missing boundary")
  ELSE IF ~HasKeys(n, NodeKeys) THEN Throw("Missing node properties")
  ELSE IF ~isLeaf(n)
  THEN LET direction == determineQuadrant(n, item)
           quadrant == n.quadrants[direction]
       IN IF intersects(quadrant.boundary, item)
          THEN [n EXCEPT !.quadrants[direction] = insert(@, item)]
          ELSE addOverlappingChild(n, item)
  ELSE LET updatedNode == addChild(n, item)
       IN IF ~isSplittable(updatedNode)
          THEN updatedNode
          ELSE LET splitNode == split(updatedNode)
                   children == splitNode.children
               IN [reduce(children, splitNode) EXCEPT !.children = <<>>]

\* insert that also keeps the item at the node it descends from
insert_descendAndKeep(n, item) ==
  IF ~HasKeys(item, BoundaryKeys) THEN Throw("Missing boundary")
  ELSE IF ~HasKeys(n, NodeKeys) THEN Throw("Missing node properties")
  ELSE IF ~isLeaf(n)
  THEN LET direction == determineQuadrant(n, item)
           quadrant == n.quadrants[direction]
       IN IF within(quadrant.boundary, item)
          THEN addOverlappingChild(
                 [n EXCEPT !.quadrants[direction] = insert(@, item)], item)
          ELSE addOverlappingChild(n, item)
  ELSE LET updatedNode == addChild(n, item)
       IN IF ~isSplittable(updatedNode)
          THEN updatedNode
          ELSE LET splitNode == split(updatedNode)
                   children == splitNode.children
               IN [reduce(children, splitNode) EXCEPT !.children = <<>>]

\* insert that re-inserts the items of a split leaf last to first
insert_reinsertReversed(n, item) ==
  IF ~HasKeys(item, BoundaryKeys) THEN Throw("Missing boundary")
  ELSE IF ~HasKeys(n, NodeKeys) THEN Throw("Missing node properties")
  ELSE IF ~isLeaf(n)
  THEN LET direction == determineQuadrant(n, item)
           quadrant == n.quadrants[direction]
       IN IF within(quadrant.boundary, item)
          THEN [n EXCEPT !.quadrants[direction] = insert(@, item)]
          ELSE addOverlappingChild(n, item)
  ELSE LET updatedNode == addChild(n, item)
       IN IF ~isSplittable(updatedNode)
          THEN updatedNode
          ELSE LET splitNode == split(updatedNode)
                   children == splitNode.children
                   reversed == [i \in 1..Len(children) |->
                                  children[Len(children) + 1 - i]]
               IN [reduce(reversed, splitNode) EXCEPT !.children = <<>>]

\* insert that keeps an item that fits no quadrant among the direct items
insert_overlapAsChild(n, item) ==
  IF ~HasKeys(item, BoundaryKeys) THEN Throw("Missing boundary")
  ELSE IF ~HasKeys(n, NodeKeys) THEN Throw("Missing node properties")
  ELSE IF ~isLeaf(n)
  THEN LET direction == determineQuadrant(n, item)
           quadrant == n.quadrants[direction]
       IN IF within(quadrant.boundary, item)
          THEN [n EXCEPT !.quadrants[direction] = insert(@, item)]
          ELSE addChild(n, item)
  ELSE LET updatedNode == addChild(n, item)
       IN IF ~isSplittable(updatedNode)
          THEN updatedNode
          ELSE LET splitNode == split(updatedNode)
                   children == splitNode.children
               IN [reduce(children, splitNode) EXCEPT !.children = <<>>]

\* insert that descends into the chosen quadrant without the within test
insert_noWithinCheck(n, item) ==
  IF ~HasKeys(item, BoundaryKeys) THEN Throw("Missing boundary")
  ELSE IF ~HasKeys(n, NodeKeys) THEN Throw("Missing node properties")
  ELSE IF ~isLeaf(n)
  THEN LET direction == determineQuadrant(n, item)
       IN [n EXCEPT !.quadrants[direction] = insert(@, item)]
  ELSE LET updatedNode == addChild(n, item)
       IN IF ~isSplittable(updatedNode)
          THEN updatedNode
          ELSE LET splitNode == split(updatedNode)
                   children == splitNode.children
               IN [reduce(children, splitNode) EXCEPT !.children = <<>>]

\* insert that keeps the item that made a leaf split as an overlapping item
insert_newItemOverlapping(n, item) ==
  IF ~HasKeys(item, BoundaryKeys) THEN Throw("Missing boundary")
  ELSE IF ~HasKeys(n, NodeKeys) THEN Throw("Missing node properties")
  ELSE IF ~isLeaf(n)
  THEN LET direction == determineQuadrant(n, item)
           quadrant == n.quadrants[direction]
       IN IF within(quadrant.boundary, item)
          THEN [n EXCEPT !.quadrants[direction] = insert(@, item)]
          ELSE addOverlappingChild(n, item)
  ELSE LET updatedNode == addChild(n, item)
       IN IF ~isSplittable(updatedNode)
          THEN updatedNode
          ELSE LET splitNode == split(updatedNode)
                   children == n.children
               IN [addOverlappingChild(reduce(children, splitNode), item)
                     EXCEPT !.children = <<>>]

insert(n, item) ==
  IF ~HasKeys(item, BoundaryKeys) THEN Throw("Missing boundary")
  ELSE IF ~HasKeys(n, NodeKeys) THEN Throw("Missing node properties")
  ELSE IF ~isLeaf(n)
  THEN LET direction == determineQuadrant(n, item)
           quadrant == n.quadrants[direction]
       IN IF within(quadrant.boundary, item)
          THEN [n EXCEPT !.quadrants[direction] = insert(@, item)]
          ELSE addOverlappingChild(n, item)
  ELSE LET updatedNode == addChild(n, item)
       IN IF ~isSplittable(updatedNode)
          THEN updatedNode
          ELSE LET splitNode == split(updatedNode)
                   children == splitNode.children
               IN [reduce(children, splitNode) EXCEPT !.children = <<>>]

\* batchInsert folding from the right (reduceRight)
batchInsert_reduceRight(n, items) ==
  reduce([i \in 1..Len(items) |-> items[Len(items) + 1 - i]], n)

batchInsert(n, items) == reduce(items, n)

\* search that filters the direct items only
search_directOnly(n, item) ==
  IF ~HasKeys(item, BoundaryKeys) THEN Throw("Missing boundary")
  ELSE IF ~HasKeys(n, NodeKeys) THEN Throw("Missing node properties")
  ELSE IF ~intersects(n.boundary, item)
  THEN <<>>
  ELSE LET points == SelectSeq(n.children, LAMBDA x : intersects(item, x))
       IN IF isLeaf(n)
          THEN points
          ELSE LET quadrants == n.quadrants
               IN points
                    \o search(quadrants["top-left"], item)
                    \o search(quadrants["top-right"], item)
                    \o search(quadrants["bottom-left"], item)
                    \o search(quadrants["bottom-right"], item)

\* search that descends into bottom-left twice and never into bottom-right
search_bottomLeftTwice(n, item) ==
  IF ~HasKeys(item, BoundaryKeys) THEN Throw("Missing boundary")
  ELSE IF ~HasKeys(n, NodeKeys) THEN Throw("Missing node properties")
  ELSE IF ~intersects(n.boundary, item)
  THEN <<>>
  ELSE LET points == SelectSeq(n.children \o n.overlappingChildren,
                               LAMBDA x : intersects(item, x))
       IN IF isLeaf(n)
          THEN points
          ELSE LET quadrants == n.quadrants
               IN points
                    \o search(quadrants["top-left"], item)
                    \o search(quadrants["top-right"], item)
                    \o search(quadrants["bottom-left"], item)
                    \o search(quadrants["bottom-left"], item)

\* search that prunes a node unless the query is within its boundary
search_pruneUnlessWithin(n, item) ==
  IF ~HasKeys(item, BoundaryKeys) THEN Throw("Missing boundary")
  ELSE IF ~HasKeys(n, NodeKeys) THEN Throw("Missing node properties")
  ELSE IF ~within(n.boundary, item)
  THEN <<>>
  ELSE LET points == SelectSeq(n.children \o n.overlappingChildren,
                               LAMBDA x : intersects(item, x))
       IN IF isLeaf(n)
          THEN points
          ELSE LET quadrants == n.quadrants
               IN points
                    \o search(quadrants["top-left"], item)
                    \o search(quadrants["top-right"], item)
                    \o search(quadrants["bottom-left"], item)
                    \o search(quadrants["bottom-right"], item)

search(n, item) ==
  IF ~HasKeys(item, BoundaryKeys) THEN Throw("Missing boundary")
  ELSE IF ~HasKeys(n, NodeKeys) THEN Throw("Missing node properties")
  ELSE IF ~intersects(n.boundary, item)
  THEN <<>>
  ELSE LET points == SelectSeq(n.children \o n.overlappingChildren,
                               LAMBDA x : intersects(item, x))
       IN IF isLeaf(n)
          THEN points
          ELSE LET quadrants == n.quadrants
               IN points
                    \o search(quadrants["top-left"], item)
                    \o search(quadrants["top-right"], item)
                    \o search(quadrants["bottom-left"], item)
                    \o search(quadrants["bottom-right"], item)

\* clear that leaves the overlapping items in place
clear_keepOverlapping(n) ==
  IF n = Null
  THEN Null
  ELSE IF ~HasKeys(n, NodeKeys) THEN Throw("Missing node properties")
  ELSE LET clearList(l) == <<>>
           updated(q) == [d \in DOMAIN q |-> clear(q[d])]
           nulled(q) == [d \in DOMAIN q |-> Null]
       IN [n EXCEPT !.children = clearList(@),
                    !.quadrants = nulled(updated(@))]

\* clear that clears the quadrants but does not set them to null
clear_keepQuadrants(n) ==
  IF n = Null
  THEN Null
  ELSE IF ~HasKeys(n, NodeKeys) THEN Throw("Missing node properties")
  ELSE LET clearList(l) == <<>>
           updated(q) == [d \in DOMAIN q |-> clear(q[d])]
       IN [n EXCEPT !.children = clearList(@),
                    !.overlappingChildren = clearList(@),
                    !.quadrants = updated(@)]

\* clear that sets three of the four quadrants to null
clear_missBottomRight(n) ==
  IF n = Null
  THEN Null
  ELSE IF ~HasKeys(n, NodeKeys) THEN Throw("Missing node properties")
  ELSE LET clearList(l) == <<>>
           updated(q) == [d \in DOMAIN q |-> clear(q[d])]
           nulled(q) == [d \in DOMAIN q |->
                           IF d = "bottom-right" THEN q[d] ELSE Null]
       IN [n EXCEPT !.children = clearList(@),
                    !.overlappingChildren = clearList(@),
                    !.quadrants = nulled(updated(@))]

\* clear that leaves the direct items in place
clear_keepChildren(n) ==
  IF n = Null
  THEN Null
  ELSE IF ~HasKeys(n, NodeKeys) THEN Throw("Missing node properties")
  ELSE LET clearList(l) == <<>>
           updated(q) == [d \in DOMAIN q |-> clear(q[d])]
           nulled(q) == [d \in DOMAIN q |-> Null]
       IN [n EXCEPT !.overlappingChildren = clearList(@),
                    !.quadrants = nulled(updated(@))]

clear(n) ==
  IF n = Null
  THEN Null
  ELSE IF ~HasKeys(n, NodeKeys) THEN Throw("Missing node properties")
  ELSE LET clearList(l) == <<>>
           updated(q) == [d \in DOMAIN q |-> clear(q[d])]
           nulled(q) == [d \in DOMAIN q |-> Null]
       IN [n EXCEPT !.children = clearList(@),
                    !.overlappingChildren = clearList(@),
                    !.quadrants = nulled(updated(@))]

-----------------------------------------------------------------------------
(* Inputs *)

\* root boundaries: a square one (as in the tests) and a non-square one
Boundaries == {boundary(0, 0, 16, 16), boundary(0, 0, 16, 8)}

Configs == [boundary : Boundaries,
            maxChildren : 1..MaxChildrenBound,
            maxDepth : 1..MaxDepthBound]

\* items: inside one quadrant at every level, across a midline, of size
\* zero on the midlines, outside the root boundary, and anchored on the
\* vertical midline of the root
Items == {boundary(1, 1, 1, 1), boundary(2, 2, 1, 1), boundary(9, 1, 2, 2),
          boundary(7, 3, 2, 2), boundary(8, 4, 0, 0), boundary(17, 3, 1, 1),
          boundary(8, 1, 1, 1)}

\* values that lack a field of a boundary: a bare position, a map without
\* height
InvalidItems == {position(1, 1), [x |-> 1, y |-> 1, width |-> 1]}

Queries == {boundary(0, 0, 16, 16), boundary(0, 0, 3, 3),
            boundary(16, 2, 4, 4), boundary(8, 2, 2, 2)}

RECURSIVE SeqsUpTo(_, _)
SeqsUpTo(S, k) ==
  IF k = 0 THEN {<<>>}
  ELSE LET shorter == SeqsUpTo(S, k - 1)
       IN shorter \cup {Append(s, e) : s \in shorter, e \in S}

Batches == SeqsUpTo(Items, MaxBatch)

-----------------------------------------------------------------------------
(* The caller *)

Init ==
  /\ cfg \in Configs
  /\ tree = create(cfg.boundary, Number(cfg.maxChildren), Number(cfg.maxDepth))
  /\ before = tree
  /\ ret = <<>>
  /\ op = [name |-> "create"]
  /\ inserted = <<>>

\* tree = Quadtree.insert(tree, item); when insert throws, the assignment
\* does not happen and the caller is left with the error
Insert(item) ==
  /\ Len(inserted) < MaxInserts
  /\ LET result == insert(tree, item)
     IN IF IsError(result)
        THEN /\ tree' = tree
             /\ ret' = result
             /\ inserted' = inserted
        ELSE /\ tree' = result
             /\ ret' = <<>>
             /\ inserted' = Append(inserted, item)
  /\ before' = tree
  /\ op' = [name |-> "insert", item |-> item]
  /\ UNCHANGED cfg

BatchInsert(items) ==
  /\ Len(inserted) + Len(items) <= MaxInserts
  /\ tree' = batchInsert(tree, items)
  /\ before' = tree
  /\ ret' = <<>>
  /\ op' = [name |-> "batchInsert", items |-> items]
  /\ inserted' = inserted \o items
  /\ UNCHANGED cfg

Search(q) ==
  /\ ret' = search(tree, q)
  /\ before' = tree
  /\ op' = [name |-> "search", query |-> q]
  /\ UNCHANGED <<tree, inserted, cfg>>

Clear ==
  /\ tree' = clear(tree)
  /\ before' = tree
  /\ ret' = <<>>
  /\ op' = [name |-> "clear"]
  /\ inserted' = <<>>
  /\ UNCHANGED cfg

Next ==
  \/ \E item \in Items \cup InvalidItems : Insert(item)
  \/ \E items \in Batches : BatchInsert(items)
  \/ \E q \in Queries : Search(q)
  \/ Clear

Spec == Init /\ [][Next]_vars

-----------------------------------------------------------------------------
(* Vocabulary of the properties *)

Range(s) == {s[i] : i \in DOMAIN s}

\* how often e occurs in the sequence s
Count(s, e) == Cardinality({i \in DOMAIN s : s[i] = e})

BagOfSeq(s) == [e \in Range(s) |-> Count(s, e)]

Populated(n) == {d \in Directions : n.quadrants[d] # Null}

\* every node of the tree rooted at n
RECURSIVE NodesOf(_)
NodesOf(n) ==
  {n} \cup UNION {NodesOf(n.quadrants[d]) : d \in Populated(n)}

\* every stored entry of the tree rooted at n, node by node
RECURSIVE Stored(_)
Stored(n) ==
  LET sub(d) == IF n.quadrants[d] = Null THEN <<>> ELSE Stored(n.quadrants[d])
  IN n.children \o n.overlappingChildren
       \o sub("top-left") \o sub("top-right")
       \o sub("bottom-left") \o sub("bottom-right")

Root == create(cfg.boundary, Number(cfg.maxChildren), Number(cfg.maxDepth))

-----------------------------------------------------------------------------
(* C1 *)

\* C1 (as stated): search(T, Q) returns exactly the inserted items that
\* intersect Q, each as often as it was inserted.
C1_SearchExact ==
  op.name = "search" =>
    BagOfSeq(ret) =
      BagOfSeq(SelectSeq(inserted, LAMBDA i : intersects(op.query, i)))

\* C1 (amended): search(T, Q) returns only inserted items that intersect Q,
\* none more often than it was inserted, and every inserted item that
\* intersects Q and lies within the root's boundary exactly as often as it
\* was inserted; an item that is not within the root's boundary can be
\* omitted.
C1_SearchSoundAndCompleteInBounds ==
  op.name = "search" =>
    /\ \A e \in Range(ret) :
         /\ intersects(op.query, e)
         /\ Count(ret, e) <= Count(inserted, e)
    /\ \A e \in Range(inserted) :
         (intersects(op.query, e) /\ within(cfg.boundary, e))
           => Count(ret, e) = Count(inserted, e)

\* a search of a split tree that returns an item stored below the root and
\* one stored at the root, and leaves out an inserted item
C1_Witness ==
  /\ op.name = "search"
  /\ ~isLeaf(tree)
  /\ \E e \in Range(ret) : e \in Range(tree.overlappingChildren)
  /\ \E e \in Range(ret) : e \notin Range(tree.overlappingChildren)
  /\ \E e \in Range(inserted) : ~intersects(op.query, e)

-----------------------------------------------------------------------------
(* C3 *)

QuadrantBoundary(b, d) ==
  IF d = "top-left"
    THEN boundary(b.x, b.y, Half(b.width), Half(b.height))
  ELSE IF d = "top-right"
    THEN boundary(b.x + Half(b.width), b.y, Half(b.width), Half(b.height))
  ELSE IF d = "bottom-left"
    THEN boundary(b.x, b.y + Half(b.height), Half(b.width), Half(b.height))
  ELSE boundary(b.x + Half(b.width), b.y + Half(b.height),
                Half(b.width), Half(b.height))

\* C3: the four children of every split node, square or not, have the
\* boundaries (x, y, w/2, h/2), (x+w/2, y, w/2, h/2), (x, y+h/2, w/2, h/2)
\* and (x+w/2, y+h/2, w/2, h/2), and each lies inside the parent.
C3_SplitGeometry ==
  \A n \in NodesOf(tree) :
    ~isLeaf(n) =>
      \A d \in Directions :
        /\ n.quadrants[d].boundary = QuadrantBoundary(n.boundary, d)
        /\ within(n.boundary, n.quadrants[d].boundary)

-----------------------------------------------------------------------------
(* C4 *)

\* C4: after n inserts the direct-item and overlapping-item sequences of
\* all nodes together hold exactly n entries, and every item is stored as
\* often as it was inserted.
C4_StoredExactlyOnce ==
  /\ Len(Stored(tree)) = Len(inserted)
  /\ BagOfSeq(Stored(tree)) = BagOfSeq(inserted)

\* a tree split on two levels that also keeps an overlapping item at the root
C4_Witness ==
  /\ Len(inserted) = 3
  /\ tree.overlappingChildren # <<>>
  /\ \E d \in Populated(tree) : ~isLeaf(tree.quadrants[d])

-----------------------------------------------------------------------------
(* C5 *)

\* C5: after maxChildren + 1 inserts into a created tree the root has no
\* direct items and all four quadrants; after at most maxChildren inserts
\* the root is a leaf that holds all of them.
C5_OverflowSplits ==
  /\ Len(inserted) = cfg.maxChildren + 1 =>
       /\ tree.children = <<>>
       /\ \A d \in Directions : tree.quadrants[d] # Null
  /\ Len(inserted) <= cfg.maxChildren =>
       /\ \A d \in Directions : tree.quadrants[d] = Null
       /\ tree.children = inserted

\* the insert of item maxChildren + 1 has split a root that was a full leaf
C5_Witness ==
  /\ op.name = "insert"
  /\ cfg.maxChildren = 2
  /\ Len(inserted) = cfg.maxChildren + 1
  /\ isLeaf(before) /\ Len(before.children) = cfg.maxChildren
  /\ ~isLeaf(tree)

-----------------------------------------------------------------------------
(* C6 *)

\* C6: every leaf above the maximum depth holds at most maxChildren direct
\* items.
C6_LeafCapacity ==
  \A n \in NodesOf(tree) :
    (isLeaf(n) /\ n.depth < n.maxDepth) => Len(n.children) <= n.maxChildren

\* a leaf at the maximum depth that holds more than maxChildren items next
\* to a tree whose root has split
C6_Witness ==
  /\ op.name \in {"insert", "batchInsert"}
  /\ \E n \in NodesOf(tree) :
       /\ isLeaf(n) /\ n.depth = n.maxDepth
       /\ Len(n.children) > n.maxChildren
  /\ \E n \in NodesOf(tree) :
       /\ isLeaf(n) /\ n.depth < n.maxDepth
       /\ Len(n.children) = n.maxChildren

-----------------------------------------------------------------------------
(* C7 *)

\* the positions (paths of directions from the root) of the split nodes
RECURSIVE SplitPaths(_)
SplitPaths(n) ==
  IF isLeaf(n) THEN {}
  ELSE {<<>>} \cup
       UNION {{<<d>> \o p : p \in SplitPaths(n.quadrants[d])} : d \in Populated(n)}

\* C7: a created tree is a leaf, split(n) is never a leaf, and a position
\* that is split before an insert or batchInsert is split after it.
C7_SplitOneWay ==
  /\ isLeaf(Root)
  /\ \A n \in NodesOf(tree) : ~isLeaf(split(n))
  /\ op.name \in {"insert", "batchInsert"} =>
       SplitPaths(before) \subseteq SplitPaths(tree)

\* an insert into a tree that was already split on two levels
C7_Witness ==
  /\ op.name = "insert"
  /\ Cardinality(SplitPaths(before)) >= 2
  /\ Len(Stored(tree)) = Len(Stored(before)) + 1

-----------------------------------------------------------------------------
(* C8 *)

\* insert(...insert(insert(t, i1), i2)..., ik)
RECURSIVE NestedInserts(_, _)
NestedInserts(t, items) ==
  IF items = <<>> THEN t
  ELSE insert(NestedInserts(t, SubSeq(items, 1, Len(items) - 1)),
              items[Len(items)])

\* C8: batchInsert(T, [i1, ..., ik]) returns the tree that k inserts in the
\* same order return, for every k including 0: for the batch the caller
\* has just applied, and for every batch of items the tree already holds.
C8_BatchInsertEquivalence ==
  /\ op.name = "batchInsert" => tree = NestedInserts(before, op.items)
  /\ \A items \in SeqsUpTo(Range(inserted), MaxBatch) :
       batchInsert(tree, items) = NestedInserts(tree, items)

\* a batch of two different items that split the tree
C8_Witness ==
  /\ op.name = "batchInsert"
  /\ Len(op.items) = 2 /\ op.items[1] # op.items[2]
  /\ isLeaf(before) /\ ~isLeaf(tree)

-----------------------------------------------------------------------------
(* C9 *)

\* C9: clear(clear(T)) = clear(T); clear(T) is a leaf with all four
\* quadrants absent and both item sequences empty, and every search of it
\* is empty.
C9_ClearIdempotent ==
  LET c == clear(tree)
  IN /\ clear(c) = c
     /\ isLeaf(c)
     /\ \A d \in Directions : c.quadrants[d] = Null
     /\ c.children = <<>> /\ c.overlappingChildren = <<>>
     /\ \A q \in Queries : search(c, q) = <<>>
     /\ op.name = "clear" => tree = clear(tree)

\* clear has been applied to a split tree that held an overlapping item
C9_Witness ==
  /\ op.name = "clear"
  /\ ~isLeaf(before)
  /\ before.overlappingChildren # <<>>
  /\ \E q \in Queries : search(before, q) # <<>>

-----------------------------------------------------------------------------
(* C10 *)

\* C10: clear(T) has T's boundary, maxChildren, maxDepth and depth and is
\* the tree create returns for them, and inserts into a cleared tree give
\* the tree the same inserts give from create.
C10_ClearPreservesConfig ==
  /\ LET c == clear(tree)
     IN /\ c.boundary = tree.boundary
        /\ c.maxChildren = tree.maxChildren
        /\ c.maxDepth = tree.maxDepth
        /\ c.depth = tree.depth
        /\ c = create(tree.boundary, Number(tree.maxChildren),
                       Number(tree.maxDepth))
  /\ op.name = "clear" => tree = Root
  /\ tree = NestedInserts(Root, inserted)

\* clear has been applied to a tree that was split below the root
C10_Witness ==
  /\ op.name = "clear"
  /\ \E d \in Populated(before) : ~isLeaf(before.quadrants[d])
  /\ tree # before

-----------------------------------------------------------------------------
(* C14 *)

\* rectangles of non-negative size that meet in an edge or a corner only
Touch(a, b) ==
  /\ a.width >= 0 /\ a.height >= 0 /\ b.width >= 0 /\ b.height >= 0
  /\ a.x <= b.x + b.width /\ b.x <= a.x + a.width
  /\ a.y <= b.y + b.height /\ b.y <= a.y + a.height
  /\ \/ a.x + a.width = b.x \/ b.x + b.width = a.x
     \/ a.y + a.height = b.y \/ b.y + b.height = a.y

\* C14: rectangles that share only an edge or a corner do not intersect,
\* and search returns no item that merely touches the query.
C14_TouchingNotIntersecting ==
  /\ \A q \in Queries :
       \A e \in Range(Stored(tree)) \cup {n.boundary : n \in NodesOf(tree)} :
         Touch(q, e) => (~intersects(q, e) /\ ~intersects(e, q))
  /\ op.name = "search" => \A e \in Range(ret) : ~Touch(op.query, e)

\* a search that returns an item and leaves out a stored item whose edge
\* lies on an edge of the query
C14_Witness ==
  /\ op.name = "search"
  /\ ret # <<>>
  /\ \E e \in Range(inserted) :
       /\ Touch(op.query, e)
       /\ e.width > 0 /\ e.height > 0
       /\ e \notin Range(ret)

-----------------------------------------------------------------------------
(* C15 *)

\* C15: insert, addChild and addOverlappingChild fail for an item that
\* lacks x, y, width or height, return no tree, and the caller's tree stays
\* as it was.
C15_InvalidItemRejected ==
  /\ \A bad \in InvalidItems :
       \A n \in NodesOf(tree) :
         /\ IsError(insert(n, bad))
         /\ IsError(addChild(n, bad))
         /\ IsError(addOverlappingChild(n, bad))
  /\ (op.name = "insert" /\ ~HasKeys(op.item, BoundaryKeys)) =>
       (IsError(ret) /\ tree = before)

\* an insert of a bare position into a split tree has failed
C15_Witness ==
  /\ op.name = "insert"
  /\ op.item = position(1, 1)
  /\ ~isLeaf(tree)
  /\ IsError(ret)

-----------------------------------------------------------------------------
(* C17 *)

FitsSome(m, item) ==
  \E d \in Directions : within(m.quadrants[d].boundary, item)

KeptAsOverlapping(m, r, item) ==
  r.overlappingChildren = Append(m.overlappingChildren, item)

-----------------------------------------------------------------------------
(* C18 *)

\* C18: every node has none or all four of its quadrants, so isLeaf, which
\* looks at top-left only, agrees with looking at all four.
C18_AllOrNothingQuadrants ==
  \A n \in NodesOf(tree) \cup NodesOf(before) :
    /\ Populated(n) = {} \/ Populated(n) = Directions
    /\ isLeaf(n) <=> Populated(n) = {}

\* a tree with split nodes on two levels next to leaves
C18_Witness ==
  /\ Cardinality(SplitPaths(tree)) >= 2
  /\ \E n \in NodesOf(tree) : Populated(n) = {}
  /\ \E n \in NodesOf(tree) : Populated(n) = Directions /\ n.depth = 1

-----------------------------------------------------------------------------
(* C19 *)

\* C19: the root has depth 0, every quadrant has its parent's depth + 1,
\* and every node has the root's maxChildren and maxDepth.
C19_DepthAndThresholdsInherited ==
  /\ tree.depth = 0
  /\ \A n \in NodesOf(tree) :
       /\ n.maxChildren = cfg.maxChildren
       /\ n.maxDepth = cfg.maxDepth
       /\ \A d \in Populated(n) : n.quadrants[d].depth = n.depth + 1

\* nodes at depth 2 in a tree whose maxChildren differs from its maxDepth
C19_Witness ==
  /\ cfg.maxChildren # cfg.maxDepth
  /\ \E n \in NodesOf(tree) : n.depth = 2

-----------------------------------------------------------------------------
(* C20 *)

\* C20: no node is deeper than maxDepth and a node at depth maxDepth is a
\* leaf, whatever it holds.
C20_DepthBound ==
  \A n \in NodesOf(tree) :
    /\ n.depth <= n.maxDepth
    /\ n.depth = n.maxDepth => isLeaf(n)

\* one insert has split two levels and left all its items in a leaf at
\* depth maxDepth = 2
C20_Witness ==
  /\ op.name = "insert"
  /\ isLeaf(before)
  /\ cfg.maxDepth = 2
  /\ \E n \in NodesOf(tree) :
       /\ n.depth = 2 /\ isLeaf(n)
       /\ Len(n.children) = Len(inserted)
       /\ Len(n.children) > n.maxChildren

-----------------------------------------------------------------------------
(* The worked scenario of the tests and the README: the nine items are     *)
(* inserted in their order, one at a time or in batches, into a tree       *)
(* created with the default thresholds.                                    *)

ScenarioBoundary == boundary(0, 0, 200, 200)

ScenarioItems ==
  <<boundary(5, 6, 1, 2), boundary(67, 24, 1, 1), boundary(149, 121, 2, 1),
    boundary(189, 76, 1, 1), boundary(25, 195, 1, 2), boundary(99, 0, 5, 2),
    boundary(64, 120, 5, 7), boundary(112, 57, 2, 2), boundary(49, 49, 2, 2)>>

ScenarioViewport == boundary(50, 50, 100, 100)

ScenarioQueries ==
  {ScenarioViewport, ScenarioBoundary,
   boundary(0, 0, 100, 100), boundary(100, 0, 100, 100),
   boundary(0, 100, 100, 100), boundary(100, 100, 100, 100)}

ScenarioInit ==
  /\ cfg = [boundary |-> ScenarioBoundary,
            maxChildren |-> DefaultMaxChildren,
            maxDepth |-> DefaultMaxDepth]
  /\ tree = create(ScenarioBoundary, Undefined, Undefined)
  /\ before = tree
  /\ ret = <<>>
  /\ op = [name |-> "create"]
  /\ inserted = <<>>

\* the items that follow the ones inserted so far, k of them
NextItems(k) == SubSeq(ScenarioItems, Len(inserted) + 1, Len(inserted) + k)

InsertNext ==
  /\ Len(inserted) < Len(ScenarioItems)
  /\ tree' = insert(tree, NextItems(1)[1])
  /\ before' = tree
  /\ ret' = <<>>
  /\ op' = [name |-> "insert", item |-> NextItems(1)[1]]
  /\ inserted' = inserted \o NextItems(1)
  /\ UNCHANGED cfg

BatchInsertNext(k) ==
  /\ Len(inserted) + k <= Len(ScenarioItems)
  /\ tree' = batchInsert(tree, NextItems(k))
  /\ before' = tree
  /\ ret' = <<>>
  /\ op' = [name |-> "batchInsert", items |-> NextItems(k)]
  /\ inserted' = inserted \o NextItems(k)
  /\ UNCHANGED cfg

ScenarioNext ==
  \/ InsertNext
  \/ \E k \in 0..Len(ScenarioItems) : BatchInsertNext(k)
  \/ \E q \in ScenarioQueries : Search(q)
  \/ Clear

ScenarioSpec == ScenarioInit /\ [][ScenarioNext]_vars

-----------------------------------------------------------------------------
(* C11 *)

\* C11: after the nine inserts the search with (50,50,100,100) returns
\* exactly (149,121,2,1), (64,120,5,7), (112,57,2,2) and (49,49,2,2), and
\* after the sixth insert the root's overlapping items are (99,0,5,2) alone.
C11_WorkedScenario ==
  /\ (op.name = "search" /\ op.query = ScenarioViewport
        /\ inserted = ScenarioItems) =>
       BagOfSeq(ret) =
         BagOfSeq(<<boundary(149, 121, 2, 1), boundary(64, 120, 5, 7),
                    boundary(112, 57, 2, 2), boundary(49, 49, 2, 2)>>)
  /\ inserted = SubSeq(ScenarioItems, 1, 6) =>
       tree.overlappingChildren = <<boundary(99, 0, 5, 2)>>

\* the viewport search after all nine inserts has returned four items
C11_Witness ==
  /\ op.name = "search" /\ op.query = ScenarioViewport
  /\ inserted = ScenarioItems
  /\ Len(ret) = 4
  /\ ~isLeaf(tree) /\ Len(tree.overlappingChildren) = 1

-----------------------------------------------------------------------------
(* Direct calls of the functions of modules/boundary.js and of create,     *)
(* with the arguments drawn from small sets: op is the call, ret is what   *)
(* it returned.                                                            *)

RectCoords == 0..1
RectSizes == 0..2

\* every rectangle on a small grid, including empty ones
Rects == {boundary(x, y, w, h) : x \in RectCoords, y \in RectCoords,
                                 w \in RectSizes, h \in RectSizes}

CreateBoundaries ==
  {boundary(0, 0, 16, 16), boundary(0, 0, 16, 8),
   position(0, 0), [x |-> 0, y |-> 0, width |-> 16]}

CreateArgs ==
  {Undefined, String(""), Halves(3)} \cup {Number(v) : v \in -1..MaxChildrenBound}

FnInit ==
  /\ tree = Null
  /\ before = Null
  /\ ret = <<>>
  /\ op = [name |-> "none"]
  /\ inserted = <<>>
  /\ cfg = Null

CallWithin(bound, item) ==
  /\ ret' = within(bound, item)
  /\ op' = [name |-> "within", bound |-> bound, item |-> item]
  /\ UNCHANGED <<tree, before, inserted, cfg>>

CallIntersects(bound1, bound2) ==
  /\ ret' = intersects(bound1, bound2)
  /\ op' = [name |-> "intersects", bound1 |-> bound1, bound2 |-> bound2]
  /\ UNCHANGED <<tree, before, inserted, cfg>>

CallCreate(b, maxChildren, maxDepth) ==
  /\ ret' = create(b, maxChildren, maxDepth)
  /\ op' = [name |-> "create", boundary |-> b,
            maxChildren |-> maxChildren, maxDepth |-> maxDepth]
  /\ UNCHANGED <<tree, before, inserted, cfg>>

FnNext ==
  \/ \E bound \in Rects, item \in Rects : CallWithin(bound, item)
  \/ \E bound1 \in Rects, bound2 \in Rects : CallIntersects(bound1, bound2)
  \/ \E b \in CreateBoundaries, maxChildren \in CreateArgs, maxDepth \in CreateArgs :
       CallCreate(b, maxChildren, maxDepth)

FnSpec == FnInit /\ [][FnNext]_vars

-----------------------------------------------------------------------------
(* C12 *)

\* C12: intersects(a, b) = intersects(b, a), and intersects(a, a) holds
\* for every a of positive width and height.
C12_IntersectsSymmetric ==
  op.name = "intersects" =>
    /\ ret = intersects(op.bound2, op.bound1)
    /\ (op.bound1 = op.bound2 /\ op.bound1.width > 0 /\ op.bound1.height > 0)
         => ret = TRUE

\* intersects has returned true for two different rectangles that overlap
\* in part
C12_Witness ==
  /\ op.name = "intersects"
  /\ ret = TRUE
  /\ op.bound1.x < op.bound2.x
  /\ op.bound1.y > op.bound2.y

-----------------------------------------------------------------------------
(* C13 *)

\* C13: within(B, I) is true iff I.x >= B.x, I.x + I.width <= B.x + B.width,
\* I.y >= B.y and I.y + I.height <= B.y + B.height; an edge of I on an edge
\* of B counts as within, and within(B, B) is true.
C13_WithinInclusive ==
  op.name = "within" =>
    LET B == op.bound
        I == op.item
    IN /\ ret = (/\ I.x >= B.x
                 /\ I.x + I.width <= B.x + B.width
                 /\ I.y >= B.y
                 /\ I.y + I.height <= B.y + B.height)
       /\ B = I => ret = TRUE
       /\ within(B, B)

\* within has returned true for an item whose right and bottom edges lie
\* on the edges of a larger boundary
C13_Witness ==
  /\ op.name = "within"
  /\ ret = TRUE
  /\ op.item # op.bound
  /\ op.item.x > op.bound.x
  /\ op.item.width > 0 /\ op.item.height > 0
  /\ op.item.x + op.item.width = op.bound.x + op.bound.width
  /\ op.item.y + op.item.height = op.bound.y + op.bound.height

-----------------------------------------------------------------------------
(* C16 *)

\* a positive integer
ValidThreshold(arg) ==
  /\ arg.type = "number"
  /\ arg.num % arg.den = 0
  /\ arg.num > 0

\* C16: create fails when maxChildren or maxDepth is not a positive integer
\* or the boundary lacks x, y, width or height; otherwise it returns a leaf
\* at depth 0 with empty item sequences, with 4 for an omitted maxChildren
\* or maxDepth.
C16_CreateValidation ==
  op.name = "create" =>
    LET maxChildren == IF op.maxChildren = Undefined THEN Number(4)
                       ELSE op.maxChildren
        maxDepth == IF op.maxDepth = Undefined THEN Number(4)
                    ELSE op.maxDepth
        valid == /\ BoundaryKeys \subseteq DOMAIN op.boundary
                 /\ ValidThreshold(maxChildren)
                 /\ ValidThreshold(maxDepth)
    IN /\ ~valid => IsError(ret)
       /\ valid =>
            /\ ~IsError(ret)
            /\ ret.boundary = op.boundary
            /\ ret.maxChildren = maxChildren.num \div maxChildren.den
            /\ ret.maxDepth = maxDepth.num \div maxDepth.den
            /\ ret.depth = 0
            /\ \A d \in Directions : ret.quadrants[d] = Null
            /\ ret.children = <<>> /\ ret.overlappingChildren = <<>>

\* create has failed for maxChildren = 0 with a valid boundary and maxDepth
C16_Witness ==
  /\ op.name = "create"
  /\ op.maxChildren = Number(0)
  /\ op.maxDepth = Undefined
  /\ BoundaryKeys \subseteq DOMAIN op.boundary
  /\ IsError(ret)

-----------------------------------------------------------------------------
(* C21 *)

\* the quadrant of the split node m that insert chooses for the item
Chosen(m, item) == m.quadrants[determineQuadrant(m, item)]

\* r is m with the quadrant chosen for the item replaced by the insert into
\* it, and with nothing else changed
OnlyChosenReplaced(m, r, item) ==
  LET direction == determineQuadrant(m, item)
  IN /\ r.quadrants[direction] = insert(m.quadrants[direction], item)
     /\ r.quadrants[direction] # m.quadrants[direction]
     /\ \A d \in Directions \ {direction} : r.quadrants[d] = m.quadrants[d]
     /\ r.children = m.children
     /\ r.overlappingChildren = m.overlappingChildren
     /\ r.boundary = m.boundary
     /\ r.maxChildren = m.maxChildren
     /\ r.maxDepth = m.maxDepth
     /\ r.depth = m.depth

\* C21: an insert into a split node of an item within the chosen quadrant
\* returns the node with that one quadrant replaced; the other three
\* quadrants, both item sequences, the boundary, the thresholds and the
\* depth are those of the node.
C21_DescentReplacesOneQuadrant ==
  /\ (op.name = "insert" /\ ~IsError(ret) /\ ~isLeaf(before)
        /\ within(Chosen(before, op.item).boundary, op.item)) =>
       OnlyChosenReplaced(before, tree, op.item)
  /\ \A m \in NodesOf(tree), item \in Items :
       (~isLeaf(m) /\ within(Chosen(m, item).boundary, item)) =>
         OnlyChosenReplaced(m, insert(m, item), item)

\* an insert into a split root has put the item into a quadrant, next to a
\* sibling quadrant and an overlapping item that are kept
C21_Witness ==
  /\ op.name = "insert" /\ ~IsError(ret)
  /\ ~isLeaf(before)
  /\ within(Chosen(before, op.item).boundary, op.item)
  /\ tree # before
  /\ tree.overlappingChildren # <<>>

-----------------------------------------------------------------------------
(* C22 *)

\* the leaf m does not split when it takes one more item
StaysLeaf(m) ==
  Len(m.children) + 1 <= m.maxChildren \/ m.depth = m.maxDepth

\* C22: an insert into a leaf that does not exceed maxChildren, or that is
\* at maxDepth, returns the leaf with the item appended to the end of its
\* direct items and nothing else changed.
C22_LeafInsertAppends ==
  /\ (op.name = "insert" /\ ~IsError(ret) /\ isLeaf(before)
        /\ StaysLeaf(before)) =>
       /\ tree = [before EXCEPT !.children = Append(@, op.item)]
       /\ isLeaf(tree)
       /\ tree.overlappingChildren = before.overlappingChildren
  /\ \A m \in NodesOf(tree), item \in Items :
       (isLeaf(m) /\ StaysLeaf(m)) =>
         insert(m, item) = [m EXCEPT !.children = Append(@, item)]

\* an insert has appended a second, different item to a root leaf
C22_Witness ==
  /\ op.name = "insert" /\ ~IsError(ret)
  /\ isLeaf(before) /\ StaysLeaf(before)
  /\ Len(before.children) = 1
  /\ before.children[1] # op.item
  /\ tree.children = <<before.children[1], op.item>>

-----------------------------------------------------------------------------
(* C23 *)

\* s lists some of the entries of t, in the order they have in t
RECURSIVE IsSubseq(_, _)
IsSubseq(s, t) ==
  IF s = <<>> THEN TRUE
  ELSE IF t = <<>> THEN FALSE
  ELSE IF Head(s) = Head(t) THEN IsSubseq(Tail(s), Tail(t))
  ELSE IsSubseq(s, Tail(t))

\* C23: the items of a leaf that splits are re-inserted one at a time in
\* their original order, so the direct items and the overlapping items of
\* every node are listed in the order in which they were inserted into the
\* tree.
C23_InsertionOrderKept ==
  /\ \A m \in NodesOf(tree) :
       /\ IsSubseq(m.children, inserted)
       /\ IsSubseq(m.overlappingChildren, inserted)
  /\ (op.name = "insert" /\ ~IsError(ret) /\ isLeaf(before)
        /\ ~isLeaf(tree)) =>
       tree = [NestedInserts(split(addChild(before, op.item)),
                             Append(before.children, op.item))
                 EXCEPT !.children = <<>>]

\* an insert has split the root leaf and a quadrant now holds two different
\* items, the earlier one first
C23_Witness ==
  /\ op.name = "insert" /\ ~IsError(ret)
  /\ isLeaf(before) /\ ~isLeaf(tree)
  /\ \E m \in NodesOf(tree) \ {tree} :
       /\ Len(m.children) >= 2
       /\ m.children[1] # m.children[2]
       /\ m.children[1] = inserted[1]

-----------------------------------------------------------------------------
(* C24 *)

\* C24: Quadtree.clear(T) = Node.clear(T) for every reachable tree T and for
\* every subtree of it: the same boundary, thresholds and depth, empty item
\* sequences and four absent quadrants; Quadtree.clear(null) is null.
C24_ClearAgreesWithNodeClear ==
  /\ clear(Null) = Null
  /\ \A m \in NodesOf(tree) :
       /\ clear(m) = Node_clear(m)
       /\ clear(m) = [m EXCEPT !.children = <<>>,
                               !.overlappingChildren = <<>>,
                               !.quadrants = [d \in Directions |-> Null]]
  /\ op.name = "clear" => tree = Node_clear(before)

\* a clear of a split tree that holds direct and overlapping items has
\* returned what Node.clear returns
C24_Witness ==
  /\ op.name = "clear"
  /\ ~isLeaf(before)
  /\ before.overlappingChildren # <<>>
  /\ \E m \in NodesOf(before) : m.children # <<>>
  /\ tree = Node_clear(before)

-----------------------------------------------------------------------------
(* Calls of determineQuadrant, which insert makes with the node it was     *)
(* given and the item: op is the call, ret is the tag it returned.         *)

QuadrantInit == FnInit

CallDetermineQuadrant(n, item) ==
  /\ ret' = determineQuadrant(n, item)
  /\ op' = [name |-> "determineQuadrant", n |-> n, item |-> item]
  /\ UNCHANGED <<tree, before, inserted, cfg>>

\* a node for every boundary of the grid and of the trees
QuadrantNodes ==
  {create(b, Undefined, Undefined) : b \in Rects \cup Boundaries}

QuadrantNext ==
  \E n \in QuadrantNodes, item \in Rects \cup Items :
    CallDetermineQuadrant(n, item)

QuadrantSpec == QuadrantInit /\ [][QuadrantNext]_vars

-----------------------------------------------------------------------------
(* C25 *)

\* C25: determineQuadrant returns one of the four tags, never the empty
\* string: right iff item.x > x + w/2, bottom iff item.y > y + h/2 (compared
\* here as 2 * item.x > 2 * x + w), so an item on a midline goes left / top;
\* the item's width and height do not change the result.
C25_DetermineQuadrantByPosition ==
  op.name = "determineQuadrant" =>
    LET b == op.n.boundary
        right == 2 * op.item.x > 2 * b.x + b.width
        bottom == 2 * op.item.y > 2 * b.y + b.height
    IN /\ ret \in Directions
       /\ ret = (IF bottom THEN "bottom" ELSE "top")
                  \o "-" \o (IF right THEN "right" ELSE "left")
       /\ \A w \in RectSizes, h \in RectSizes :
            determineQuadrant(op.n, [op.item EXCEPT !.width = w,
                                                    !.height = h]) = ret

\* determineQuadrant has returned top-left for an item of positive size
\* anchored on both midlines
C25_Witness ==
  /\ op.name = "determineQuadrant"
  /\ 2 * op.item.x = 2 * op.n.boundary.x + op.n.boundary.width
  /\ 2 * op.item.y = 2 * op.n.boundary.y + op.n.boundary.height
  /\ op.item.width > 0 /\ op.item.height > 0
  /\ ret = "top-left"

-----------------------------------------------------------------------------
(* C26 *)

\* C26: a split node has no direct items; direct items are in leaves only,
\* and a split node holds items in its overlapping items only.
C26_SplitNodeHasNoDirectItems ==
  \A m \in NodesOf(tree) : ~isLeaf(m) => m.children = <<>>

\* a tree split on two levels holds an overlapping item at the root and
\* direct items in a leaf
C26_Witness ==
  /\ ~isLeaf(tree)
  /\ tree.children = <<>> /\ tree.overlappingChildren # <<>>
  /\ \E m \in NodesOf(tree) \ {tree} : ~isLeaf(m)
  /\ \E m \in NodesOf(tree) : isLeaf(m) /\ m.children # <<>>

-----------------------------------------------------------------------------
(* C27 *)

\* the nodes below n, each with the boundaries of the nodes on its path
\* from n (n excluded, the node itself included)
RECURSIVE Below(_, _)
Below(n, path) ==
  UNION {LET c == n.quadrants[d]
             here == path \cup {c.boundary}
         IN {[node |-> c, path |-> here]} \cup Below(c, here)
           : d \in Populated(n)}

ItemsAt(m) == Range(m.children) \cup Range(m.overlappingChildren)

\* C27: an item stored in a node other than the root is within that node's
\* boundary and within the boundary of each of its ancestors other than the
\* root; only the root can hold an item that is not within its own boundary.
C27_StoredWithinNonRootBoundaries ==
  \A e \in Below(tree, {}) :
    \A item \in ItemsAt(e.node) :
      \A b \in e.path : within(b, item)

\* the root holds an item that is not within the root boundary, and a node
\* two levels down holds an item
C27_Witness ==
  /\ \E item \in ItemsAt(tree) : ~within(tree.boundary, item)
  /\ \E e \in Below(tree, {}) :
       Cardinality(e.path) = 2 /\ ItemsAt(e.node) # {}

-----------------------------------------------------------------------------
(* C28 *)

NonNegative(r) == r.width >= 0 /\ r.height >= 0

\* C28: an inserted item of non-negative size that is within the root's
\* boundary and intersects a query of non-negative size is in the result of
\* the search; the pruning on a node's boundary hides no item stored in the
\* subtree of that node.
C28_InBoundsItemsFound ==
  \A q \in Queries :
    NonNegative(q) =>
      /\ \A i \in Range(inserted) :
           (NonNegative(i) /\ within(tree.boundary, i) /\ intersects(q, i))
             => i \in Range(search(tree, q))
      /\ \A e \in Below(tree, {}) :
           \A i \in Range(Stored(e.node)) :
             (NonNegative(i) /\ intersects(q, i))
               => /\ intersects(e.node.boundary, q)
                  /\ i \in Range(search(e.node, q))

\* a search with a query smaller than the root has returned an item stored
\* two levels below the root
C28_Witness ==
  /\ op.name = "search"
  /\ op.query # tree.boundary
  /\ \E e \in Below(tree, {}) :
       /\ Cardinality(e.path) = 2
       /\ \E i \in ItemsAt(e.node) : i \in Range(ret)

-----------------------------------------------------------------------------
(* C29 *)

\* the tree with each item sequence replaced by its multiset
RECURSIVE Shape(_)
Shape(n) ==
  IF n = Null THEN Null
  ELSE [boundary |-> n.boundary,
        maxChildren |-> n.maxChildren,
        maxDepth |-> n.maxDepth,
        depth |-> n.depth,
        children |-> BagOfSeq(n.children),
        overlappingChildren |-> BagOfSeq(n.overlappingChildren),
        quadrants |-> [d \in Directions |-> Shape(n.quadrants[d])]]

\* the sequences that list the entries of s in another order
Reorderings(s) ==
  LET n == Len(s)
      bijections == {p \in [1..n -> 1..n] : \A i, j \in 1..n :
                                               p[i] = p[j] => i = j}
  IN {[i \in 1..n |-> s[p[i]]] : p \in bijections}

\* C29: after every insert, the items inserted so far, inserted in any
\* other order, give a tree with the same quadrants and, at every node, the
\* same multiset of direct items and the same multiset of overlapping items;
\* a search returns the same multiset.
C29_InsertionOrderIndependent ==
  (op.name = "insert" /\ ~IsError(ret)) =>
    \A p \in Reorderings(inserted) :
      LET other == NestedInserts(Root, p)
      IN /\ Shape(other) = Shape(tree)
         /\ \A q \in Queries :
              BagOfSeq(search(other, q)) = BagOfSeq(search(tree, q))

\* three different items were inserted, the tree is split and holds an
\* overlapping item at the root and direct items in a quadrant
C29_Witness ==
  /\ op.name = "insert" /\ ~IsError(ret)
  /\ Cardinality(Range(inserted)) = 3
  /\ ~isLeaf(tree)
  /\ tree.overlappingChildren # <<>>
  /\ \E m \in NodesOf(tree) \ {tree} : m.children # <<>>
  /\ \E p \in Reorderings(inserted) : NestedInserts(Root, p) # tree

-----------------------------------------------------------------------------
(* C30 *)

\* the number of split nodes of the tree rooted at n
RECURSIVE SplitCount(_)
SplitCount(n) ==
  IF isLeaf(n) THEN 0
  ELSE 1 + SplitCount(n.quadrants["top-left"])
         + SplitCount(n.quadrants["top-right"])
         + SplitCount(n.quadrants["bottom-left"])
         + SplitCount(n.quadrants["bottom-right"])

\* C30: one insert returns a tree after at most maxDepth nested splits: it
\* splits no more nodes than there are levels left below the node it is
\* applied to, also when the items are identical rectangles that fall into
\* the same quadrant at every level, and no node is split at maxDepth.
C30_InsertSplitsBounded ==
  /\ (op.name = "insert" /\ ~IsError(ret)) =>
       SplitCount(tree) - SplitCount(before) <= cfg.maxDepth
  /\ \A m \in NodesOf(tree), item \in Items :
       LET r == insert(m, item)
       IN /\ ~IsError(r)
          /\ SplitCount(r) - SplitCount(m) <= m.maxDepth - m.depth
          /\ \A k \in NodesOf(r) : ~isLeaf(k) => k.depth < k.maxDepth

\* one insert of a rectangle identical to the ones already stored has split
\* maxDepth = 2 nodes, one below the other
C30_Witness ==
  /\ op.name = "insert" /\ ~IsError(ret)
  /\ Len(inserted) >= 2 /\ Cardinality(Range(inserted)) = 1
  /\ cfg.maxDepth = 2
  /\ SplitCount(tree) - SplitCount(before) = cfg.maxDepth

=============================================================================
